---- MODULE Spec2Model ----
(***************************************************************************)
(* Model of lvm_defrag (src/main.py): the two single-step planners defrag  *)
(* and move_tail_pe, the relocation engine (pvmove / pvs) they talk to,    *)
(* and the loop that calls a planner until it returns False.               *)
(*                                                                         *)
(* Physical extents are numbered from 0, as pvseg_start is.  The physical  *)
(* volume is a function  0..PVSize-1 -> extent owner.                      *)
(***************************************************************************)
EXTENDS Integers, Sequences, FiniteSets

\* ---------------------------------------------------------------- bounds
PVSize == 4             \* extents on the physical volume
MaxCalls == 12          \* planner calls one loop may make in the model
MaxBudgetExtents == 2   \* largest whole-extent multiple among the budgets
MaxRecords == 3         \* records of a hand-made (unvalidated) report

\* ------------------------------------------------------ program constants
MinExtentSize == 4096   \* assert extent_size > 4096

LVs == {"a", "b"}
ExtentSizes == {MinExtentSize, 2 * MinExtentSize}

Min(x, y) == IF x <= y THEN x ELSE y

\* ------------------------------------------------------------ the records
\* One record of `pvs --segments`, as the dataclass holds it.
Pvseg(vg, lv, pvstart, le, size, type) ==
    [vg_name |-> vg, lv_name |-> lv, pvseg_start |-> pvstart,
     seg_start_pe |-> le, seg_size_pe |-> size, segtype |-> type]

\* A relocation request (one pvmove -b command line).  dst = -1 stands for
\* the bare PV name as destination: the allocator places the data anywhere.
NoReq == [src |-> -1, len |-> 0, dst |-> -1, anywhere |-> FALSE, atomic |-> FALSE]
MoveTo(s, n, d, at) == [src |-> s, len |-> n, dst |-> d, anywhere |-> FALSE, atomic |-> at]
MoveAnywhere(s, n) == [src |-> s, len |-> n, dst |-> -1, anywhere |-> TRUE, atomic |-> FALSE]

\* What a planner call ends with: True ("moved"), False ("none") or an
\* exception ("fatal"), and the request it handed to pvmove, if any.  A plan
\* whose outcome is "issue" becomes "moved" or "fatal" when pvmove answers.
\* `why` names the return or raise statement that ended the call.
Result(o, w, r) == [outcome |-> o, why |-> w, req |-> r]

\* ------------------------------------------------------- list.sort(key=)
\* Python's sort is stable: x goes after every element whose key is <= its own.
RECURSIVE InsertByAttr(_, _, _)
InsertByAttr(s, x, attr) ==
    IF s = <<>> THEN <<x>>
    ELSE IF s[Len(s)][attr] <= x[attr] THEN Append(s, x)
    ELSE Append(InsertByAttr(SubSeq(s, 1, Len(s) - 1), x, attr), s[Len(s)])

RECURSIVE SortByAttr(_, _)
SortByAttr(s, attr) ==
    IF s = <<>> THEN <<>>
    ELSE InsertByAttr(SortByAttr(SubSeq(s, 1, Len(s) - 1), attr), s[Len(s)], attr)

\* ------------------------------------------------------- snapshot builder
\* Mutant: a record of an unknown kind is skipped, not raised on.
UnknownType_Skipped(report) == FALSE

\* raise RuntimeError(f'Unknown segment type ...') inside the record loop.
UnknownType(report) ==
    \E i \in 1..Len(report) : report[i].segtype \notin {"free", "linear"}

\* pvoffset2seg[lvm_seg.pvseg_start] = lvm_seg : the last record wins.
pvoffset2seg(report) ==
    [o \in {report[i].pvseg_start : i \in 1..Len(report)} |->
        LET last == CHOOSE i \in 1..Len(report) :
                        /\ report[i].pvseg_start = o
                        /\ \A j \in (i + 1)..Len(report) : report[j].pvseg_start # o
        IN  report[last]]

IsLinear(r) == r.segtype = "linear"
IsFree(r) == r.segtype = "free"
VgLvName(r) == <<r.vg_name, r.lv_name>>

\* Keys of vg_lv_name2segments in insertion order (first appearance).
RECURSIVE VgLvNames(_)
VgLvNames(report) ==
    IF report = <<>> THEN <<>>
    ELSE LET front == VgLvNames(SubSeq(report, 1, Len(report) - 1))
             r == report[Len(report)]
         IN  IF IsLinear(r) /\ \A k \in 1..Len(front) : front[k] # VgLvName(r)
             THEN Append(front, VgLvName(r))
             ELSE front

SegsOfLv(report, name) ==
    LET Mine(r) == IsLinear(r) /\ VgLvName(r) = name
    IN  SelectSeq(report, Mine)

\* vg_lv_name2segments after the per-volume sort by seg_start_pe; each item
\* carries first_pv, the sort key of the volume walk (record[1][0].pvseg_start).
vg_lv_name2segments(report) ==
    LET names == VgLvNames(report)
    IN  [k \in 1..Len(names) |->
            LET segs == SortByAttr(SegsOfLv(report, names[k]), "seg_start_pe")
            IN  [name |-> names[k], segs |-> segs, first_pv |-> segs[1].pvseg_start]]

RECURSIVE Flatten(_)
Flatten(vols) ==
    IF vols = <<>> THEN <<>>
    ELSE vols[1].segs \o Flatten(SubSeq(vols, 2, Len(vols)))

\* The order in which defrag inspects the linear segments: volumes by the
\* physical offset of their first logical segment, segments in logical order.
WalkOrder(report) == Flatten(SortByAttr(vg_lv_name2segments(report), "first_pv"))

\* ------------------------------------------------------------------ defrag
\* Mutant: the whole misplaced segment, whatever room the blocker leaves.
to_move_whole(lvm_seg, here) == lvm_seg.seg_size_pe

\* Mutant: the whole blocker, whatever the misplaced segment needs.
to_move_blocker(lvm_seg, here) == here.seg_size_pe

\* Mutant: max where min is meant.
to_move_max(lvm_seg, here) ==
    IF lvm_seg.seg_size_pe >= here.seg_size_pe THEN lvm_seg.seg_size_pe ELSE here.seg_size_pe

\* to_move = min(lvm_seg.seg_size_pe, here.seg_size_pe)
to_move_of(lvm_seg, here) == Min(lvm_seg.seg_size_pe, here.seg_size_pe)

\* Mutant: a linear blocker stays and the misplaced segment is sent anywhere.
BlockerMove_Misplaced(lvm_seg, here) ==
    IF here.segtype = "free"
    THEN [outcome |-> "issue", why |-> "request",
          req |-> MoveTo(lvm_seg.pvseg_start, to_move_of(lvm_seg, here), here.pvseg_start, FALSE)]
    ELSE [outcome |-> "issue", why |-> "request",
          req |-> MoveAnywhere(lvm_seg.pvseg_start, to_move_of(lvm_seg, here))]

\* Mutant: the trailing extents of the misplaced segment go into the free space.
BlockerMove_Trailing(lvm_seg, here) ==
    IF here.segtype = "free"
    THEN [outcome |-> "issue", why |-> "request",
          req |-> MoveTo(lvm_seg.pvseg_start + lvm_seg.seg_size_pe - to_move_of(lvm_seg, here),
                         to_move_of(lvm_seg, here), here.pvseg_start, FALSE)]
    ELSE [outcome |-> "issue", why |-> "request",
          req |-> MoveAnywhere(here.pvseg_start, to_move_of(lvm_seg, here))]

\* The command issued for a misplaced segment lvm_seg whose place is taken by here.
BlockerMove(lvm_seg, here) ==
    IF here.segtype = "free"
    THEN Result("issue", "request",
                MoveTo(lvm_seg.pvseg_start, to_move_of(lvm_seg, here), here.pvseg_start, FALSE))
    ELSE IF here.segtype = "linear"
    THEN Result("issue", "request", MoveAnywhere(here.pvseg_start, to_move_of(lvm_seg, here)))
    ELSE Result("fatal", "blocker_kind", NoReq)

\* Mutant: the logical start compared where the physical one is meant.
InPlace_Logical(lvm_seg, expected_pvseg_offset) ==
    lvm_seg.seg_start_pe = expected_pvseg_offset

\* Mutant: a segment behind a gap passes as in place.
InPlace_NotBefore(lvm_seg, expected_pvseg_offset) ==
    lvm_seg.pvseg_start >= expected_pvseg_offset

\* if lvm_seg.pvseg_start == expected_pvseg_offset
InPlace(lvm_seg, expected_pvseg_offset) == lvm_seg.pvseg_start = expected_pvseg_offset

\* Mutant: the offset advances by one extent, not by the segment's size.
Advance_ByOne(expected_pvseg_offset, lvm_seg) == expected_pvseg_offset + 1

\* expected_pvseg_offset += lvm_seg.seg_size_pe
Advance(expected_pvseg_offset, lvm_seg) == expected_pvseg_offset + lvm_seg.seg_size_pe

\* The two nested for loops over the walk order, from its i-th segment on.
RECURSIVE Walk(_, _, _, _)
Walk(segs, i, expected_pvseg_offset, offset2seg) ==
    IF i > Len(segs) THEN Result("none", "packed", NoReq)
    ELSE IF InPlace(segs[i], expected_pvseg_offset)
    THEN Walk(segs, i + 1, Advance(expected_pvseg_offset, segs[i]), offset2seg)
    ELSE IF expected_pvseg_offset \notin DOMAIN offset2seg
    THEN Result("fatal", "key_error", NoReq)
    ELSE BlockerMove(segs[i], offset2seg[expected_pvseg_offset])

\* Mutant: the segments are read before the barrier.
defrag_ops_QueryFirst(plan) ==
    <<"query_segments", "await">> \o (IF plan.outcome = "issue" THEN <<"relocate">> ELSE <<>>)

\* The engine operations of one defrag call, in the order the code makes them:
\* check_call(['pvmove']), check_output(['pvs', '--segments', ...]) and, when
\* a move is planned, check_call(['pvmove', '-b', ...]).
defrag_ops(plan) ==
    <<"await", "query_segments">> \o (IF plan.outcome = "issue" THEN <<"relocate">> ELSE <<>>)

defrag(report) ==
    IF UnknownType(report) THEN Result("fatal", "unknown_type", NoReq)
    ELSE Walk(WalkOrder(report), 1, 0, pvoffset2seg(report))

\* ------------------------------------------------------------ move_tail_pe
\* required_bytes is <<FALSE, 0>> for None and <<TRUE, b>> for the integer b.
NoBudget == <<FALSE, 0>>
Budget(b) == <<TRUE, b>>

Settled(first_free, last_used) == first_free.seg_start_pe > last_used.seg_start_pe

\* Mutant: the budget rounded down to whole extents.
Limit_RoundsDown(to_move, extent_size, required_bytes) ==
    IF required_bytes[1]
    THEN Min(to_move * extent_size, required_bytes[2]) \div extent_size
    ELSE to_move

Limit(to_move, extent_size, required_bytes) ==
    IF required_bytes[1]
    THEN (Min(to_move * extent_size, required_bytes[2]) + extent_size - 1) \div extent_size
    ELSE to_move

\* Mutant: the head of the last used segment instead of its tail.
TailMove_FromHead(first_free, last_used, to_move) ==
    MoveTo(last_used.pvseg_start, to_move, first_free.pvseg_start, TRUE)

TailMove(first_free, last_used, to_move) ==
    MoveTo(last_used.pvseg_start + last_used.seg_size_pe - to_move, to_move,
           first_free.pvseg_start, TRUE)

\* Mutant: a length of zero is not looked for.
ZeroMove_Unchecked(to_move) == FALSE

\* if not to_move
ZeroMove(to_move) == to_move = 0

\* The engine operations of one move_tail_pe call, in the order the code makes
\* them; the extent size is read, and asserted on, before the segments are.
move_tail_pe_ops(plan) ==
    <<"await", "query_extent_size">>
    \o (IF plan.why = "extent_size" THEN <<>> ELSE <<"query_segments">>)
    \o (IF plan.outcome = "issue" THEN <<"relocate">> ELSE <<>>)

move_tail_pe(report, extent_size, required_bytes) ==
    IF ~(extent_size > MinExtentSize) THEN Result("fatal", "extent_size", NoReq)
    ELSE IF UnknownType(report) THEN Result("fatal", "unknown_type", NoReq)
    ELSE
      LET free == SortByAttr(SelectSeq(report, IsFree), "pvseg_start")
          used == SortByAttr(SelectSeq(report, IsLinear), "pvseg_start")
      IN  IF used = <<>> THEN Result("none", "no_used", NoReq)
          ELSE IF free = <<>> THEN Result("none", "no_free", NoReq)
          ELSE IF Settled(free[1], used[Len(used)])
          THEN IF Len(free) = 1 THEN Result("none", "settled", NoReq)
               ELSE Result("fatal", "many_free", NoReq)
          ELSE
            LET to_move == Limit(Min(free[1].seg_size_pe, used[Len(used)].seg_size_pe),
                                 extent_size, required_bytes)
            IN  IF ZeroMove(to_move) THEN Result("none", "zero", NoReq)
                ELSE Result("issue", "request", TailMove(free[1], used[Len(used)], to_move))

\* ------------------------------------------------------- the engine (LVM)
Offsets == 0..(PVSize - 1)
Free == [lv |-> "", le |-> 0]
Owned(lv, le) == [lv |-> lv, le |-> le]

\* Extent i continues the segment of extent i - 1: free after free, or the
\* next logical extent of the same volume.
Continues(map, i) ==
    /\ i > 0
    /\ map[i].lv = map[i - 1].lv
    /\ (map[i].lv # "" => map[i].le = map[i - 1].le + 1)

SegEnd(map, i) ==
    CHOOSE e \in (i + 1)..PVSize :
        /\ \A k \in (i + 1)..(e - 1) : Continues(map, k)
        /\ (e < PVSize => ~Continues(map, e))

\* `pvs --segments -o vg_name,lv_name,pvseg_start,seg_start_pe,seg_size_pe,segtype`:
\* the maximal runs of the extent map in physical order.  free_le is the
\* seg_start_pe the report prints for a free segment.
RECURSIVE PvsFrom(_, _, _)
PvsFrom(map, i, free_le) ==
    IF i >= PVSize THEN <<>>
    ELSE LET e == SegEnd(map, i)
             r == IF map[i].lv = ""
                  THEN Pvseg("", "", i, free_le, e - i, "free")
                  ELSE Pvseg("vg", map[i].lv, i, map[i].le, e - i, "linear")
         IN  <<r>> \o PvsFrom(map, e, free_le)

PvsReport(map, free_le) == PvsFrom(map, 0, free_le)

FreeExtents(map) == {p \in Offsets : map[p].lv = ""}
Range(start, len) == start..(start + len - 1)

\* pvmove takes the command: a positive length, a source range of allocated
\* extents, and room for it at the destination.
Accepts(map, req) ==
    /\ req.len >= 1
    /\ Range(req.src, req.len) \subseteq (Offsets \ FreeExtents(map))
    /\ IF req.anywhere
       THEN Cardinality(FreeExtents(map)) >= req.len
       ELSE Range(req.dst, req.len) \subseteq FreeExtents(map)

\* The k-th smallest element of a set of offsets, k = 1..Cardinality.
Nth(S, k) == CHOOSE x \in S : Cardinality({y \in S : y < x}) = k - 1

\* The destinations the allocator may pick: a tuple `to` of req.len free
\* extents, to[k] receiving the data of extent req.src + k - 1.
Allocations(map, req) ==
    IF req.anywhere
    THEN {[k \in 1..req.len |-> Nth(S, k)] :
            S \in {T \in SUBSET FreeExtents(map) : Cardinality(T) = req.len}}
    ELSE {[k \in 1..req.len |-> req.dst + k - 1]}

NoMove == [src |-> -1, len |-> 0, to |-> <<>>]

\* The extent map once the move mv has finished.
Moved(map, mv) ==
    [p \in Offsets |->
        IF \E k \in 1..mv.len : mv.to[k] = p
        THEN map[mv.src + (CHOOSE k \in 1..mv.len : mv.to[k] = p) - 1]
        ELSE IF p \in Range(mv.src, mv.len) THEN Free
        ELSE map[p]]

\* Extent maps of a volume group in order: every volume on the device holds
\* its logical extents 0..n-1, each exactly once.
ValidMap(map) ==
    \A v \in LVs :
        LET mine == {p \in Offsets : map[p].lv = v}
        IN  /\ \A p \in mine : map[p].le < Cardinality(mine)
            /\ \A p, q \in mine : p # q => map[p].le # map[q].le

Owners == {Free} \cup {Owned(v, le) : v \in LVs, le \in 0..(PVSize - 1)}
ValidMaps == {map \in [Offsets -> Owners] : ValidMap(map)}

\* The budgets a caller may pass: None, and byte counts around the multiples
\* of the extent size, zero and a negative one included.
Budgets(extent_size) ==
    {NoBudget} \cup {Budget(b) : b \in {-extent_size, 0}}
               \cup {Budget(k * extent_size + 1) : k \in 0..MaxBudgetExtents}
               \cup {Budget(k * extent_size) : k \in 1..(MaxBudgetExtents + 1)}

\* Records a hand-made report may hold: any start, size and kind, the
\* unknown kind "raid1" included; nothing makes them tile the device.
Records ==
    {Pvseg("", "", o, 0, n, "free") : o \in 0..2, n \in 1..2}
    \cup {Pvseg("vg", "a", o, le, n, "linear") : o \in 0..2, le \in 0..1, n \in 1..2}
    \cup {Pvseg("vg", "b", o, 0, n, "linear") : o \in 0..2, n \in 1..2}
    \cup {Pvseg("vg", "a", o, 0, n, "raid1") : o \in 0..2, n \in 1..2}

Reports == UNION {[1..n -> Records] : n \in 1..MaxRecords}

\* ------------------------------------------------------------- the state
VARIABLES
    pv,              \* the extent map of the physical volume
    pv0,             \* the extent map the loop started from
    pending,         \* the relocation pvmove is running in the background
    pc,              \* "idle": the loop is about to call; "wait": inside a
                     \* call, at `pvmove` (the barrier); "done": loop left;
                     \* "input": a planner is about to read a given report
    mode,            \* the planner called: "defrag" or "tail"
    extent_size,     \* vg_extent_size in bytes
    required_bytes,  \* the budget argument of move_tail_pe
    free_le,         \* seg_start_pe as reported for free segments
    snap,            \* the extent map the last call found
    report,          \* the segment report the last call read
    last,            \* how the last call ended, and its request
    ops,             \* the engine operations the last call made, in order
    calls            \* calls made

vars == <<pv, pv0, pending, pc, mode, extent_size, required_bytes, free_le,
          snap, report, last, ops, calls>>

NoResult == Result("none", "not_called", NoReq)

\* defrag reads neither the extent size, nor a budget, nor the seg_start_pe
\* of a free segment.
Init ==
    /\ pv \in ValidMaps
    /\ pv0 = pv
    /\ pending = NoMove
    /\ pc = "idle"
    /\ mode \in {"defrag", "tail"}
    /\ extent_size \in ExtentSizes
    /\ required_bytes \in Budgets(extent_size)
    /\ free_le \in {0, 1}
    /\ (mode = "defrag" =>
          extent_size = 2 * MinExtentSize /\ required_bytes = NoBudget /\ free_le = 0)
    /\ snap = pv
    /\ report = <<>>
    /\ last = NoResult
    /\ ops = <<>>
    /\ calls = 0

\* while planner(pv_name): pass  -- the loop calls the planner once more.
Enter ==
    /\ pc = "idle"
    /\ calls < MaxCalls
    /\ pc' = "wait"
    /\ calls' = calls + 1
    /\ UNCHANGED <<pv, pv0, pending, mode, extent_size, required_bytes, free_le,
                   snap, report, last, ops>>

\* Mutant: the call does not wait for the running move.
Quiesced_NoBarrier(mv) == TRUE

\* check_call(['pvmove']) returns once no move is running.
Quiesced(mv) == mv = NoMove

\* The rest of a call, from the barrier to its return: read the report, plan,
\* hand the request to pvmove -b, which starts the move or refuses it.
Call(plan, oplog) ==
    /\ pc = "wait"
    /\ Quiesced(pending)
    /\ ops' = oplog
    /\ snap' = pv
    /\ report' = PvsReport(pv, free_le)
    /\ IF plan.outcome = "issue"
       THEN IF Accepts(pv, plan.req)
            THEN /\ \E to \in Allocations(pv, plan.req) :
                       pending' = [src |-> plan.req.src, len |-> plan.req.len, to |-> to]
                 /\ last' = Result("moved", plan.why, plan.req)
                 /\ pc' = "idle"
            ELSE /\ last' = Result("fatal", "rejected", plan.req)
                 /\ pc' = "done"
                 /\ UNCHANGED pending
       ELSE /\ last' = plan
            /\ pc' = "done"
            /\ UNCHANGED pending
    /\ UNCHANGED <<pv, pv0, mode, extent_size, required_bytes, free_le, calls>>

DefragCall ==
    /\ mode = "defrag"
    /\ Call(defrag(PvsReport(pv, free_le)), defrag_ops(defrag(PvsReport(pv, free_le))))

TailCall ==
    /\ mode = "tail"
    /\ LET plan == move_tail_pe(PvsReport(pv, free_le), extent_size, required_bytes)
       IN  Call(plan, move_tail_pe_ops(plan))

\* The background move finishes.
Complete ==
    /\ pending # NoMove
    /\ pv' = Moved(pv, pending)
    /\ pending' = NoMove
    /\ UNCHANGED <<pv0, pc, mode, extent_size, required_bytes, free_le, snap,
                   report, last, ops, calls>>

Next == Enter \/ DefragCall \/ TailCall \/ Complete

Spec == Init /\ [][Next]_vars

\* ------------------------------------- the planners on a report as given
\* One call of a planner on whatever `pvs` printed, valid or not; the call
\* ends at its return, its raise, or the pvmove command it issues.
InitReport ==
    /\ pv = [p \in Offsets |-> Free]
    /\ pv0 = pv
    /\ pending = NoMove
    /\ pc = "input"
    /\ mode = "none"
    /\ extent_size = 2 * MinExtentSize
    /\ required_bytes = NoBudget
    /\ free_le = 0
    /\ snap = pv
    /\ report \in Reports
    /\ last = NoResult
    /\ ops = <<>>
    /\ calls = 0

DefragReport ==
    /\ pc = "input"
    /\ pc' = "done"
    /\ mode' = "defrag"
    /\ last' = defrag(report)
    /\ ops' = defrag_ops(defrag(report))
    /\ calls' = calls + 1
    /\ UNCHANGED <<pv, pv0, pending, extent_size, required_bytes, free_le, snap, report>>

TailReport ==
    /\ pc = "input"
    /\ pc' = "done"
    /\ mode' = "tail"
    /\ \E es \in ExtentSizes :
          /\ extent_size' = es
          /\ last' = move_tail_pe(report, es, required_bytes)
          /\ ops' = move_tail_pe_ops(move_tail_pe(report, es, required_bytes))
    /\ calls' = calls + 1
    /\ UNCHANGED <<pv, pv0, pending, required_bytes, free_le, snap, report>>

NextReport == DefragReport \/ TailReport

SpecReport == InitReport /\ [][NextReport]_vars

\* ============================================================ properties
\* What the properties say about a layout is stated on the extent map the
\* call found (snap), extent by extent, not through the planners' own code.
Called == last.why # "not_called"
Issued == last.req # NoReq
SaneExtent == extent_size > MinExtentSize

UsedExtents(map) == Offsets \ FreeExtents(map)
SetMin(S) == CHOOSE x \in S : \A y \in S : x <= y
SetMax(S) == CHOOSE x \in S : \A y \in S : x >= y

\* Start and length of the segment (maximal run) that holds extent p.
RunStart(map, p) ==
    CHOOSE s \in 0..p : ~Continues(map, s) /\ \A k \in (s + 1)..p : Continues(map, k)
RunLen(map, p) == SegEnd(map, RunStart(map, p)) - RunStart(map, p)

FirstFreeStart(map) == SetMin(FreeExtents(map))
LastUsedStart(map) == RunStart(map, SetMax(UsedExtents(map)))
Movable(map) == Min(RunLen(map, FirstFreeStart(map)), RunLen(map, LastUsedStart(map)))
HasBoth(map) == FreeExtents(map) # {} /\ UsedExtents(map) # {}

\* Fully packed: no free extent before a used one, and every extent but a
\* volume's first sits right behind its logical predecessor.
Packed(map) ==
    /\ \A p \in FreeExtents(map) : \A q \in Offsets : q > p => q \in FreeExtents(map)
    /\ \A p \in UsedExtents(map) :
          map[p].le > 0 => p > 0 /\ map[p - 1] = Owned(map[p].lv, map[p].le - 1)

\* The walk order extent by extent: volumes by where their first logical
\* extent lies, extents of a volume by logical number.
FirstOf(map, v) ==
    CHOOSE p \in Offsets :
        /\ map[p].lv = v
        /\ \A q \in Offsets : map[q].lv = v => map[p].le <= map[q].le
WalksBefore(map, p, q) ==
    \/ FirstOf(map, map[p].lv) < FirstOf(map, map[q].lv)
    \/ map[p].lv = map[q].lv /\ map[p].le < map[q].le
Rank(map, p) == Cardinality({q \in UsedExtents(map) : WalksBefore(map, q, p)})
OutOfPlace(map) == {p \in UsedExtents(map) : Rank(map, p) # p}
\* The offset the first misplaced extent belongs at, and where it is now.
ExpectedOffset(map) == SetMin({Rank(map, p) : p \in OutOfPlace(map)})
Misplaced(map) == CHOOSE p \in OutOfPlace(map) : Rank(map, p) = ExpectedOffset(map)

NSegs(map) == Cardinality({p \in Offsets : ~Continues(map, p)})

\* ------------------------------------------------------------------- C1
\* C1 as claimed: the defrag loop, every relocation applied before the next
\* call, ends with "fully defragmented", after no more relocating calls than
\* the snapshot it started from has segments.
C1_ConvergesWithinSegments ==
    (mode = "defrag" /\ pc = "done") =>
        (last.outcome = "none" /\ calls <= NSegs(pv0) + 1)

\* C1 as amended: the defrag loop leaves after at most twice the number of
\* allocated extents plus one calls (the loop leaves only when a call does not
\* return True, so it cannot run on), and it leaves either with
\* "fully defragmented" or with pvmove refusing an 'anywhere' move for which
\* the device has too few free extents.
C1_LoopEnds ==
    mode = "defrag" =>
        /\ calls <= 2 * Cardinality(UsedExtents(pv0)) + 1
        /\ pc = "done" =>
              \/ last.outcome = "none" /\ last.why = "packed"
              \/ /\ last.outcome = "fatal" /\ last.why = "rejected"
                 /\ last.req.anywhere
                 /\ Cardinality(FreeExtents(snap)) < last.req.len
\* A loop that needed more relocations than it had segments, and one that died.
C1_Witness ==
    /\ mode = "defrag" /\ pc = "done" /\ last.outcome = "none"
    /\ calls > NSegs(pv0) + 1

\* ------------------------------------------------------------------- C2
\* C2: when the first free region starts after the last used segment starts
\* (all free space is at the tail), move_tail_pe issues nothing and returns
\* the no-action outcome.
C2_SettledNoAction ==
    (mode = "tail" /\ Called /\ SaneExtent /\ HasBoth(snap)
       /\ FirstFreeStart(snap) > LastUsedStart(snap))
    => (last.outcome = "none" /\ ~Issued)

\* ------------------------------------------------------------------- C3
\* C3: with a budget of B bytes, a move issued by move_tail_pe has a length n
\* with B <= n * extent_size < B + extent_size, unless the full movable
\* amount is below B bytes, and then n is the full movable amount.
C3_BudgetRespected ==
    (mode = "tail" /\ Called /\ Issued /\ required_bytes[1]) =>
        LET B == required_bytes[2]
            n == last.req.len
        IN  IF Movable(snap) * extent_size < B
            THEN n = Movable(snap)
            ELSE B <= n * extent_size /\ n * extent_size < B + extent_size

\* A budget of one extent and a byte, rounded up to two extents.
C3_Witness ==
    /\ mode = "tail" /\ Called /\ last.outcome = "moved"
    /\ required_bytes = Budget(extent_size + 1)
    /\ Movable(snap) >= 2
    /\ last.req.len = 2

\* ------------------------------------------------------------------- C4
\* C4: on a fully packed layout defrag returns the no-action outcome and
\* issues no relocation.
C4_Idempotent ==
    (mode = "defrag" /\ Called /\ Packed(snap)) => (last.outcome = "none" /\ ~Issued)

\* Two packed volumes and free space behind them.
C4_Witness ==
    /\ mode = "defrag" /\ Called /\ Packed(snap) /\ last.outcome = "none"
    /\ \A v \in LVs : \E p \in Offsets : snap[p].lv = v
    /\ FreeExtents(snap) # {}

\* ------------------------------------------------------------------- C5
\* C5: every move issued by move_tail_pe has its destination range at
\* strictly lower physical offsets than its source range.
C5_TowardStart ==
    (mode = "tail" /\ Called /\ SaneExtent /\ Issued) =>
        last.req.dst + last.req.len <= last.req.src

\* ------------------------------------------------------------------- C6
\* C6: without a budget, a move issued by move_tail_pe is one atomic request
\* for to_move = min(first free size, last used size) extents, from the last
\* to_move extents of the last used segment to the first to_move extents of
\* the first free region, and the call returns "a move was made".
C6_TailShape ==
    (mode = "tail" /\ Called /\ Issued /\ ~required_bytes[1]) =>
        LET lu == LastUsedStart(snap)
            n == Movable(snap)
        IN  /\ last.req = [src |-> lu + RunLen(snap, lu) - n, len |-> n,
                           dst |-> FirstFreeStart(snap),
                           anywhere |-> FALSE, atomic |-> TRUE]
            /\ last.outcome = "moved"

\* A last used segment longer than the first free region: only its tail moves.
C6_Witness ==
    /\ mode = "tail" /\ Called /\ Issued /\ ~required_bytes[1]
    /\ FirstFreeStart(snap) < LastUsedStart(snap)
    /\ RunLen(snap, LastUsedStart(snap)) > RunLen(snap, FirstFreeStart(snap))
    /\ last.req.src > LastUsedStart(snap)

\* ------------------------------------------------------------------- C7
\* The first misplaced segment of snap has a free blocker.
FreeBlocker(map) ==
    OutOfPlace(map) # {} /\ ExpectedOffset(map) \in FreeExtents(map)

\* One volume, its extents in logical order, and exactly one free run that
\* has allocated extents behind it: the gap is the only defect.
GapOnly(map) ==
    /\ Cardinality({map[p].lv : p \in UsedExtents(map)}) = 1
    /\ \A p, q \in UsedExtents(map) : p < q => map[p].le < map[q].le
    /\ Cardinality({p \in FreeExtents(map) : p + 1 \in UsedExtents(map)}) = 1

FirstMoveApplied == calls = 1 /\ pc = "idle" /\ pending = NoMove
SecondCallReturned == calls = 2 /\ pc # "wait"

\* A defrag call that meets a free blocker issues exactly the move of the
\* misplaced segment's leading min(misplaced size, blocker size) extents
\* to expected_offset.
C7_Step ==
    (mode = "defrag" /\ Called /\ FreeBlocker(snap)) =>
        LET e == ExpectedOffset(snap)
            m == Misplaced(snap)
        IN  /\ last.outcome = "moved"
            /\ last.req = [src |-> m, len |-> Min(RunLen(snap, m), RunLen(snap, e)),
                           dst |-> e, anywhere |-> FALSE, atomic |-> FALSE]

\* C7 as claimed: the step above, and on a single-volume layout whose only
\* defect is the gap the layout is packed once that one move is applied, and
\* the second call reports "fully defragmented".
C7_OneStepPacks ==
    /\ C7_Step
    /\ (mode = "defrag" /\ GapOnly(pv0)) =>
          /\ FirstMoveApplied => Packed(pv)
          /\ SecondCallReturned => (last.outcome = "none" /\ pc = "done")

\* C7 as amended: the same, for a gap at least as long as the misplaced
\* segment (a shorter gap takes only the segment's leading extents, and the
\* rest is still out of place after the move).
C7_OneStepPacksWideGap ==
    /\ C7_Step
    /\ (mode = "defrag" /\ GapOnly(pv0)
          /\ RunLen(pv0, ExpectedOffset(pv0)) >= RunLen(pv0, Misplaced(pv0))) =>
          /\ FirstMoveApplied => Packed(pv)
          /\ SecondCallReturned => (last.outcome = "none" /\ pc = "done")

\* Example 1 in small: the volume behind a gap of its own length, moved in
\* one step, and the second call has returned.
C7_Witness ==
    /\ mode = "defrag" /\ GapOnly(pv0) /\ SecondCallReturned
    /\ 0 \in FreeExtents(pv0)
    /\ RunLen(pv0, 0) = 2 /\ RunLen(pv0, 2) = 2
    /\ Packed(pv) /\ last.outcome = "none"

\* ------------------------------------------------------------------- C8
HasUnknownKind(rep) == \E i \in DOMAIN rep : rep[i].segtype \notin {"free", "linear"}

\* C8: a report with a record of any kind but free and linear ends either
\* planner in the fatal outcome, with no relocation request.
C8_UnknownKindFatal ==
    (pc = "done" /\ HasUnknownKind(report)) => (last.outcome = "fatal" /\ ~Issued)

\* The offending record comes last, behind a free and a linear record that
\* would have been planned against.
C8_Witness ==
    /\ pc = "done" /\ mode = "tail" /\ SaneExtent
    /\ Len(report) = 3
    /\ report[1].segtype = "free" /\ report[2].segtype = "linear"
    /\ report[1].pvseg_start < report[2].pvseg_start
    /\ report[3].segtype = "raid1"
    /\ last.outcome = "fatal"

\* ------------------------------------------------------------------- C9
Extents(r) == Range(r.pvseg_start, r.seg_size_pe)
Covered(rep) == UNION {Extents(rep[i]) : i \in DOMAIN rep}

\* The records tile [0, total_extents): no two overlap and nothing is left out.
IsPartition(rep) ==
    /\ \A i, j \in DOMAIN rep : i # j => Extents(rep[i]) \cap Extents(rep[j]) = {}
    /\ Covered(rep) = 0..(Cardinality(Covered(rep)) - 1)

\* C9: no relocation is issued for a report whose segments leave a gap,
\* overlap or share a start offset.
C9_NonPartitionRejected ==
    (pc = "done" /\ ~HasUnknownKind(report) /\ ~IsPartition(report)) => ~Issued

\* ------------------------------------------------------------------ C10
\* C10: a relocation request is issued only when no relocation is running.
C10_OneInFlight ==
    [][(pc = "wait" /\ pc' # "wait" /\ last'.req # NoReq) => pending = NoMove]_vars

\* A second request, issued after the first move has finished.
C10_Witness == calls >= 2 /\ pending # NoMove /\ last.outcome = "moved"

\* ------------------------------------------------------------------ C11
\* The first misplaced segment of snap has an allocated blocker.
LinearBlocker(map) ==
    OutOfPlace(map) # {} /\ ExpectedOffset(map) \in UsedExtents(map)

\* C11: a defrag call that meets a linear blocker issues exactly the move of
\* the blocker's leading min(misplaced size, blocker size) extents, the range
\* starting at expected_offset, to a destination left to the allocator; the
\* blocker is a segment of its own and no extent of the misplaced segment is
\* in the source range.
C11_LinearBlockerStep ==
    (mode = "defrag" /\ Called /\ LinearBlocker(snap)) =>
        LET e == ExpectedOffset(snap)
            m == Misplaced(snap)
            n == Min(RunLen(snap, m), RunLen(snap, e))
        IN  /\ Issued
            /\ last.req = [src |-> e, len |-> n, dst |-> -1,
                           anywhere |-> TRUE, atomic |-> FALSE]
            /\ RunStart(snap, e) = e
            /\ Range(e, n) \cap Range(m, RunLen(snap, m)) = {}

\* A blocker longer than the misplaced segment: only its leading extents go.
C11_Witness ==
    /\ mode = "defrag" /\ Called /\ LinearBlocker(snap)
    /\ last.outcome = "moved"
    /\ last.req.len < RunLen(snap, ExpectedOffset(snap))

\* ------------------------------------------------------------------ C12
\* C12: the loop of move_tail_pe calls without a budget, every relocation
\* applied before the next call, reaches a call that returns the no-action
\* outcome.  The planner keeps no state between calls and names source and
\* destination itself, so the loop is a function of the layout: it ends only
\* if no layout comes back after a relocation, and that is what is stated --
\* after a completed relocation the device is not in the layout the loop
\* started from.
C12_TailLoopEnds ==
    (/\ mode = "tail" /\ required_bytes = NoBudget /\ SaneExtent
     /\ calls >= 2 /\ last.outcome = "moved" /\ pending = NoMove)
        => pv # pv0

\* ------------------------------------------------------------------ C13
\* How often the last call asked for a relocation.
Relocations(oplog) == Cardinality({i \in DOMAIN oplog : oplog[i] = "relocate"})

IsQuery(op) == op \in {"query_extent_size", "query_segments"}

\* The barrier is the first operation and the only one of its kind, and every
\* query precedes every relocation request.
BarrierQueryRelocate(oplog) ==
    /\ oplog # <<>> /\ oplog[1] = "await"
    /\ \A i \in DOMAIN oplog : oplog[i] = "await" => i = 1
    /\ \E i \in DOMAIN oplog : IsQuery(oplog[i])
    /\ \A i, j \in DOMAIN oplog : IsQuery(oplog[i]) /\ oplog[j] = "relocate" => i < j

\* C13 as claimed: in every planner call the barrier precedes the queries,
\* the queries precede the relocation request, at most one request is issued,
\* and the call returns "a move was made" exactly when it issued one request.
C13_CallProtocol ==
    Called =>
        /\ BarrierQueryRelocate(ops)
        /\ Relocations(ops) <= 1
        /\ (last.outcome = "moved" <=> Relocations(ops) = 1)

\* C13 amended: the order and the at-most-one hold; a call that returns "a
\* move was made" issued exactly one request, a no-action call issued none,
\* and a fatal call issued none unless the fatal is pvmove refusing the one
\* request the call issued.
C13_CallProtocolUnlessRefused ==
    Called =>
        /\ BarrierQueryRelocate(ops)
        /\ Relocations(ops) <= 1
        /\ (last.outcome = "moved" => Relocations(ops) = 1)
        /\ (last.outcome = "none" => Relocations(ops) = 0)
        /\ (last.outcome = "fatal" =>
               (Relocations(ops) = 1 <=> last.why = "rejected"))

\* defrag asks for room anywhere on a device without a free extent, and
\* pvmove refuses.
C13_Witness ==
    /\ mode = "defrag" /\ Called
    /\ FreeExtents(snap) = {}
    /\ last.why = "rejected" /\ Relocations(ops) = 1

\* ------------------------------------------------------------------ C14
\* The free segments of a layout, by their first extent.
FreeSegments(map) == {p \in FreeExtents(map) : ~Continues(map, p)}

\* C14: on a snapshot whose segments partition the device into maximal runs,
\* move_tail_pe never ends in the "more than one free region" fatal
\* condition, and when its settled-case test is true there is exactly one
\* free segment.
C14_SettledOneFree ==
    (mode = "tail" /\ Called) =>
        /\ last.why # "many_free"
        /\ (last.why = "settled" => Cardinality(FreeSegments(snap)) = 1)

\* ------------------------------------------------------------------ C15
\* The call gets as far as computing to_move: the extent size passes, there
\* are used and free segments, and the test of line 179 is false.
ReachesToMove ==
    /\ SaneExtent /\ HasBoth(snap)
    /\ ~(free_le > snap[LastUsedStart(snap)].le)

\* C15: when the to_move move_tail_pe computes is zero extents, the call
\* issues no relocation request and returns the no-action outcome; no issued
\* request has length zero.
C15_ZeroNotIssued ==
    (mode = "tail" /\ Called) =>
        /\ (ReachesToMove /\ Limit(Movable(snap), extent_size, required_bytes) = 0) =>
               /\ last = Result("none", "zero", NoReq)
               /\ Relocations(ops) = 0
        /\ (Issued => last.req.len # 0)

\* A budget of zero bytes on a layout with something to move.
C15_Witness ==
    /\ mode = "tail" /\ Called /\ ReachesToMove
    /\ required_bytes = Budget(0) /\ Movable(snap) >= 1
    /\ last.why = "zero" /\ pc = "done"

\* ------------------------------------------------------------------ C16
\* C16: when defrag finds a misplaced segment in a snapshot whose segments
\* partition the device, a segment starts exactly at expected_offset, it is
\* not the misplaced segment, and it is free or linear: the lookup in the
\* offset map does not fail and the "impossible blocker kind" branch is not
\* taken.
C16_BlockerFound ==
    (mode = "defrag" /\ Called) =>
        /\ last.why \notin {"key_error", "blocker_kind"}
        /\ OutOfPlace(snap) # {} =>
              LET e == ExpectedOffset(snap)
              IN  /\ e \in DOMAIN pvoffset2seg(report)
                  /\ RunStart(snap, e) = e
                  /\ RunStart(snap, Misplaced(snap)) # e
                  /\ pvoffset2seg(report)[e].segtype \in {"free", "linear"}

\* A misplaced segment met after the walk has passed a segment in place.
C16_Witness ==
    /\ mode = "defrag" /\ Called /\ OutOfPlace(snap) # {}
    /\ ExpectedOffset(snap) > 0
    /\ last.outcome = "moved"

\* ------------------------------------------------------------------ C17
\* C17: when defrag returns the no-action outcome on a valid snapshot, every
\* volume's segments are physically back-to-back in ascending logical order,
\* the volumes are packed from offset 0 upward, and no free extent lies
\* before a used one.
C17_NoneOnlyWhenPacked ==
    (mode = "defrag" /\ Called /\ last.outcome = "none") =>
        /\ last.why = "packed"
        /\ Packed(snap)
        /\ OutOfPlace(snap) = {}
        /\ UsedExtents(snap) = 0..(Cardinality(UsedExtents(snap)) - 1)

\* "Fully defragmented" reported after the loop has moved something, on a
\* device that holds two volumes and free space.
C17_Witness ==
    /\ mode = "defrag" /\ last = Result("none", "packed", NoReq)
    /\ calls >= 2 /\ pv # pv0
    /\ {snap[p].lv : p \in UsedExtents(snap)} = LVs
    /\ FreeExtents(snap) # {}

\* ------------------------------------------------------------------ C18
\* The length of the correctly packed prefix of a layout: the offset at which
\* the walk meets its first misplaced segment, or the number of used extents
\* when nothing is misplaced.
PackedPrefix(map) ==
    IF OutOfPlace(map) = {} THEN Cardinality(UsedExtents(map)) ELSE ExpectedOffset(map)

\* C18: over the defrag loop, whatever free extents the allocator picks for
\* an "anywhere" move, the packed prefix of the layout a call sees is never
\* shorter than that of the call before, and after two consecutive
\* relocations it is strictly longer.  The loop keeps nothing between calls
\* and starts from every valid layout, so the two relocations are taken to
\* be its first two.
C18_PrefixGrows ==
    mode = "defrag" =>
        /\ PackedPrefix(pv) >= PackedPrefix(snap)
        /\ (calls = 2 /\ pc = "idle" /\ last.outcome = "moved" /\ pending = NoMove) =>
               PackedPrefix(pv) > PackedPrefix(pv0)

\* Two relocations done, the first of them a blocker sent wherever the
\* allocator chose, which left the prefix as it was.
C18_Witness ==
    /\ mode = "defrag" /\ calls = 2 /\ pc = "idle"
    /\ last.outcome = "moved" /\ pending = NoMove
    /\ ~last.req.anywhere
    /\ PackedPrefix(snap) = PackedPrefix(pv0)
    /\ snap # pv0

\* ------------------------------------------------------------------ C19
\* C19: whatever the byte budget (absent, zero, positive or negative), a
\* request issued by move_tail_pe on a valid snapshot has a length between 1
\* and min(first_free.size, last_used.size); its source range lies inside the
\* last used segment and its destination range inside the first free region.
C19_TailLengthInRange ==
    (mode = "tail" /\ Called /\ Issued) =>
        LET f == FirstFreeStart(snap)
            u == LastUsedStart(snap)
        IN  /\ 1 <= last.req.len
            /\ last.req.len <= Movable(snap)
            /\ last.req.src >= u
            /\ last.req.src + last.req.len <= u + RunLen(snap, u)
            /\ last.req.dst >= f
            /\ last.req.dst + last.req.len <= f + RunLen(snap, f)

\* ------------------------------------------------------------------ C20
\* All extents of the range are of one segment of the layout.
InOneSegment(map, start, len) ==
    /\ Range(start, len) \subseteq Offsets
    /\ \A p \in Range(start, len) : RunStart(map, p) = RunStart(map, start)

\* C20: a relocation issued by defrag on a valid snapshot has length >= 1,
\* its source range lies inside a single linear segment, and an explicit
\* destination range lies inside a single free segment and does not overlap
\* the source.
C20_DefragOntoFree ==
    (mode = "defrag" /\ Called /\ Issued) =>
        /\ last.req.len >= 1
        /\ InOneSegment(snap, last.req.src, last.req.len)
        /\ Range(last.req.src, last.req.len) \subseteq UsedExtents(snap)
        /\ ~last.req.anywhere =>
              /\ InOneSegment(snap, last.req.dst, last.req.len)
              /\ Range(last.req.dst, last.req.len) \subseteq FreeExtents(snap)
              /\ Range(last.req.dst, last.req.len)
                    \cap Range(last.req.src, last.req.len) = {}

\* A move into a gap that is longer than the misplaced segment, which is
\* itself shorter than the device's used space.
C20_Witness ==
    /\ mode = "defrag" /\ Called /\ last.outcome = "moved"
    /\ ~last.req.anywhere
    /\ last.req.len < RunLen(snap, last.req.dst)

====
